---- MODULE Spec2Model ----
(***************************************************************************)
(* URL analyzer and download link extractor: the two-stage resolution      *)
(* pipeline (static fetch-and-parse, escalation to a headless browser,     *)
(* finalization) of app/agents.py (the LangGraph workflow) and of          *)
(* streamlit_app.py (the Streamlit front end).                             *)
(*                                                                         *)
(* Strings are sequences of tokens.  A token is a piece of text that no    *)
(* literal tested by the code ('http', '/', '//', ':', '[', ']', the       *)
(* keywords, the extensions, 'attachment', 'text/html') straddles, so      *)
(* startswith / endswith / in / split / lower act on tokens exactly as     *)
(* they act on the characters.  None is <<>>, a present value x is <<x>>.  *)
(***************************************************************************)
EXTENDS Integers, Sequences, FiniteSets, TLC

\* ------------------------------------------------------------------ bounds
MaxAnchors == 2

\* --------------------------------------------------------- string helpers
None == <<>>

Some(x) == <<x>>

\* str.lower() on one token
LowerTok(t) ==
  CASE t = "HTTP" -> "http"
    [] t = "Download" -> "download"
    [] t = "DOWNLOAD" -> "download"
    [] t = ".ZIP" -> ".zip"
    [] t = ".PDF" -> ".pdf"
    [] t = "FILE" -> "file"
    [] OTHER -> t

\* str.lower()
Lower(s) == [i \in 1..Len(s) |-> LowerTok(s[i])]

\* s.startswith(p)
StartsWith(s, p) == Len(p) <= Len(s) /\ SubSeq(s, 1, Len(p)) = p

\* s.endswith(p)
EndsWith(s, p) == Len(p) <= Len(s) /\ SubSeq(s, Len(s) - Len(p) + 1, Len(s)) = p

\* p in s (substring test)
Contains(s, p) == \E i \in 1..(Len(s) - Len(p) + 1) : SubSeq(s, i, i + Len(p) - 1) = p

\* index of the first token of s that is in the set ts, or Len(s) + 1
FindAny(s, ts) ==
  IF \E i \in 1..Len(s) : s[i] \in ts
  THEN CHOOSE i \in 1..Len(s) : s[i] \in ts /\ \A j \in 1..(i - 1) : s[j] \notin ts
  ELSE Len(s) + 1

\* s.split(sep) for a one-token separator
RECURSIVE Split(_, _)
Split(s, sep) ==
  LET i == FindAny(s, {sep})
  IN IF i > Len(s) THEN <<s>>
     ELSE <<SubSeq(s, 1, i - 1)>> \o Split(SubSeq(s, i + 1, Len(s)), sep)

\* sep.join(parts) for a one-token separator
RECURSIVE Join(_, _)
Join(parts, sep) ==
  IF Len(parts) = 0 THEN <<>>
  ELSE IF Len(parts) = 1 THEN parts[1]
  ELSE parts[1] \o <<sep>> \o Join(Tail(parts), sep)

\* ----------------------------------------------------------------- urlparse
\* tokens made only of scheme characters (letters, digits, '+', '-', '.')
SchemeCharToks == {"http", "s", "HTTP", "ftp", "example.com", "cdn.example.com", "page",
                   "file", "FILE", ".zip", ".ZIP", ".pdf", "files", "doc", "docs", "dir", "x"}

\* tokens whose first character is an ASCII letter
AlphaToks == SchemeCharToks \ {".zip", ".ZIP", ".pdf"}

\* urlsplit, last step: the path ends at '?' or '#'; a netloc with one square
\* bracket and not the other is ValueError("Invalid IPv6 URL"), given as ok = FALSE
parse_result(scheme, netloc, tail) ==
  [ok |-> Contains(netloc, <<"[">>) = Contains(netloc, <<"]">>),
   scheme |-> scheme, netloc |-> netloc,
   path |-> SubSeq(tail, 1, FindAny(tail, {"?", "#"}) - 1)]

\* urlsplit, _splitnetloc: after '//' the netloc runs to the first '/', '?' or '#'
split_netloc_at(scheme, after, d) ==
  parse_result(scheme, SubSeq(after, 1, d - 1), SubSeq(after, d, Len(after)))

split_netloc(scheme, rest) ==
  IF StartsWith(rest, <<"/", "/">>)
  THEN split_netloc_at(scheme, SubSeq(rest, 3, Len(rest)),
                       FindAny(SubSeq(rest, 3, Len(rest)), {"/", "?", "#"}))
  ELSE parse_result(scheme, <<>>, rest)

\* urlsplit, the scheme: the text before the first ':' when it starts with a
\* letter and is made of scheme characters; the scheme is lower-cased
split_scheme(url, i) ==
  IF /\ i > 1 /\ i <= Len(url)
     /\ url[1] \in AlphaToks
     /\ \A j \in 1..(i - 1) : url[j] \in SchemeCharToks
  THEN split_netloc(Lower(SubSeq(url, 1, i - 1)), SubSeq(url, i + 1, Len(url)))
  ELSE split_netloc(<<>>, url)

\* urllib.parse.urlparse(url): [ok, scheme, netloc, path]
urlparse(url) == split_scheme(url, FindAny(url, {":"}))

\* ------------------------------------------------ classifier and normalizer
\* download_keywords (agents.py line 108; the same list at 175); "telecharger"
\* and "skachat" stand for the accented French and the Cyrillic keyword
download_keywords == {<<"download">>, <<"descargar">>, <<"telecharger">>,
                      <<"herunterladen">>, <<"skachat">>}

\* file_extensions (agents.py lines 67, 109 and 176)
file_extensions == {<<".zip">>, <<".pdf">>, <<".exe">>, <<".dmg">>, <<".tar", ".gz">>,
                    <<".mp4">>, <<".mp3">>, <<".doc">>, <<".doc", "x">>,
                    <<".xls">>, <<".xls", "x">>}

\* the test of one <a href> element in extract_download_links
isDownloadAnchor(href, label, hasDownloadAttribute) ==
  \/ hasDownloadAttribute
  \/ \E keyword \in download_keywords :
        Contains(Lower(label), keyword) \/ Contains(Lower(href), keyword)
  \/ \E ext \in file_extensions : EndsWith(Lower(href), ext)

\* the test of one a[href] element in analyze_with_browser
isRenderedDownloadAnchor(href, text) ==
  \/ \E keyword \in download_keywords : Contains(Lower(text), keyword)
  \/ \E ext \in file_extensions : EndsWith(Lower(href), ext)

\* base_domain of line 131
base_domain(parsed_base) == parsed_base.scheme \o <<":", "/", "/">> \o parsed_base.netloc

\* '/'.join(parsed_base.path.split('/')[:-1]) + '/' of line 143
base_dir(segs) == Join(SubSeq(segs, 1, Len(segs) - 1), "/") \o <<"/">>

\* mutant: a relative path joined to the directory of the base page only
absolute_link_without_domain(link, parsed_base) ==
  IF StartsWith(link, <<"http">>) THEN link
  ELSE IF StartsWith(link, <<"/", "/">>) THEN parsed_base.scheme \o <<":">> \o link
  ELSE IF StartsWith(link, <<"/">>) THEN base_domain(parsed_base) \o link
  ELSE base_dir(Split(parsed_base.path, "/")) \o link

\* lines 135-144: the relative-to-absolute conversion of one link
absolute_link(link, parsed_base) ==
  IF StartsWith(link, <<"http">>) THEN link
  ELSE IF StartsWith(link, <<"/", "/">>) THEN parsed_base.scheme \o <<":">> \o link
  ELSE IF StartsWith(link, <<"/">>) THEN base_domain(parsed_base) \o link
  ELSE base_domain(parsed_base) \o base_dir(Split(parsed_base.path, "/")) \o link

\* the Link Normalizer: one href made absolute against a base page URL
normalize(link, base_url) == absolute_link(link, urlparse(base_url))

\* lines 133-144: the conversion of every collected link
absolute_links(download_links, parsed_base) ==
  [i \in 1..Len(download_links) |-> absolute_link(download_links[i], parsed_base)]

\* the hrefs of the anchors that pass the test, in document order
RECURSIVE SelectHrefs(_)
SelectHrefs(anchors) ==
  IF anchors = <<>> THEN <<>>
  ELSE LET a == Head(anchors)
       IN (IF isDownloadAnchor(a.href, a.text, a.download) THEN <<a.href>> ELSE <<>>)
          \o SelectHrefs(Tail(anchors))

\* mutant: the links returned last first
extract_download_links_reversed(anchors, base_url) ==
  LET links == absolute_links(SelectHrefs(anchors), urlparse(base_url))
  IN [i \in 1..Len(links) |-> links[Len(links) + 1 - i]]

\* extract_download_links(html_content, base_url), html_content given as the
\* sequence of its <a href> elements
extract_download_links(anchors, base_url) ==
  absolute_links(SelectHrefs(anchors), urlparse(base_url))

\* the links analyze_with_browser collects from the rendered a[href] elements
RECURSIVE rendered_links(_)
rendered_links(elements) ==
  IF elements = <<>> THEN <<>>
  ELSE LET e == Head(elements)
       IN (IF isRenderedDownloadAnchor(e.href, e.text) THEN <<e.href>> ELSE <<>>)
          \o rendered_links(Tail(elements))

\* re.search(r'filename="?([^"]+)"?', content_disposition): None or the group
filename_match(content_disposition) ==
  LET i == FindAny(content_disposition, {"filename="})
      after == SubSeq(content_disposition, i + 1, Len(content_disposition))
      body == IF StartsWith(after, <<"\"">>) THEN Tail(after) ELSE after
      j == FindAny(body, {"\""})
  IN IF i > Len(content_disposition) \/ j = 1 THEN None
     ELSE Some(SubSeq(body, 1, j - 1))

\* mutant: the extension of the URL is not looked at (lines 66-72 left out)
direct_download_check_header_only(url, content_disposition) ==
  LET attach == Contains(content_disposition, <<"attachment">>)
  IN [is_direct_download |-> attach,
      filename |-> IF attach THEN filename_match(content_disposition) ELSE None]

\* lines 55-72 of analyze_url: [is_direct_download, filename]
direct_download_check(url, content_disposition) ==
  LET attach == Contains(content_disposition, <<"attachment">>)
      byExt == \E ext \in file_extensions : EndsWith(Lower(url), ext)
      segs == Split(url, "/")
  IN [is_direct_download |-> attach \/ byExt,
      filename |-> IF byExt THEN Some(segs[Len(segs)])
                   ELSE IF attach THEN filename_match(content_disposition)
                   ELSE None]

\* ------------------------------------------------------------ input domains
\* sequences over S of length at most n
SeqsUpTo(S, n) == UNION {[1..k -> S] : k \in 0..n}

\* request URLs: an HTML page, a file, an upper-case file, a page in a
\* directory, one without scheme, one without host, one urlparse rejects
Urls == {<<"http", "s", ":", "/", "/", "example.com", "/", "page">>,
         <<"http", "s", ":", "/", "/", "cdn.example.com", "/", "file", ".zip">>,
         <<"HTTP", ":", "/", "/", "example.com", "/", "dir", "/", "FILE", ".ZIP">>,
         <<"example.com", "/", "page">>,
         <<"http", ":", "/", "/", "/", "file", ".zip">>,
         <<"/", "/", "[", "::1">>}

\* Content-Type headers ("" when the header is missing)
ContentTypes == {<<"text/html", "; charset=utf-8">>, <<"application/zip">>, <<>>}

\* Content-Disposition headers ("" when the header is missing)
ContentDispositions == {<<>>, <<"attachment", "; ", "filename=", "\"", "file", ".zip", "\"">>}

\* text of the <title> tag: no tag, an empty tag, a title
StaticTitles == {None, Some(<<>>), Some(<<"Static Title">>)}

\* <a href> elements of the fetched document
Anchors == {[href |-> <<"files", "/", "doc", ".pdf">>, text |-> <<"download">>, download |-> FALSE],
            [href |-> <<"/", "file", ".ZIP">>, text |-> <<"get it">>, download |-> FALSE],
            [href |-> <<"/", "/", "cdn.example.com", "/", "x">>, text |-> <<"Download">>, download |-> FALSE],
            [href |-> <<"http", "docs", "/", "x">>, text |-> <<"x">>, download |-> TRUE],
            [href |-> <<"http", "s", ":", "/", "/", "example.com", "/", "about">>, text |-> <<"about">>, download |-> FALSE]}

\* a[href] elements of the rendered DOM (element.href is resolved by the browser)
Elements == {[href |-> <<"http", "s", ":", "/", "/", "example.com", "/", "files", "/", "doc", ".pdf">>, text |-> <<"x">>, download |-> FALSE],
             [href |-> <<"http", "s", ":", "/", "/", "example.com", "/", "get">>, text |-> <<"DOWNLOAD">>, download |-> FALSE],
             [href |-> <<"http", "s", ":", "/", "/", "example.com", "/", "download", "/", "x">>, text |-> <<"about">>, download |-> FALSE],
             [href |-> <<"http", "s", ":", "/", "/", "example.com", "/", "about">>, text |-> <<"about">>, download |-> TRUE]}

\* document.title of the rendered page
RenderedTitles == {<<>>, <<"Rendered Title">>}

\* where the static stage can raise: requests.get / raise_for_status (41-42),
\* BeautifulSoup while reading the title (51), extract_download_links (87)
StaticFailPoints == {"none", "fetch", "parse", "extract"}

\* what the HTTP exchange and the parser do for one request.  Only the parts
\* analyze_url reads before it returns or raises are varied: nothing of the
\* response after a failed fetch, no document of a response that is not HTML,
\* nothing after a failed parse, no anchors after a failed extraction
HtmlTypes == {ct \in ContentTypes : Contains(ct, <<"text/html">>)}

Responses ==
  [fail : {"fetch"}, content_type : {<<>>}, content_disposition : {<<>>},
   title : {None}, anchors : {<<>>}]
  \cup [fail : {"none"}, content_type : ContentTypes \ HtmlTypes,
        content_disposition : ContentDispositions, title : {None}, anchors : {<<>>}]
  \cup [fail : {"parse"}, content_type : HtmlTypes, content_disposition : {<<>>},
        title : {None}, anchors : {<<>>}]
  \cup [fail : {"extract"}, content_type : HtmlTypes,
        content_disposition : ContentDispositions, title : StaticTitles,
        anchors : {<<>>}]
  \cup [fail : {"none"}, content_type : HtmlTypes,
        content_disposition : ContentDispositions, title : StaticTitles,
        anchors : SeqsUpTo(Anchors, MaxAnchors)]

\* where the rendered stage can raise (lines 153-182)
BrowserFailPoints == {"none", "launch", "newPage", "setUserAgent", "goto", "title",
                      "evaluate", "close"}

\* what the browser does for one request; closed: whether the browser process
\* is gone after a close() that raised.  The page is varied only for a run
\* that reads it to the end
BrowserRuns ==
  [fail : {"none"}, title : RenderedTitles,
   elements : SeqsUpTo(Elements, MaxAnchors), closed : {TRUE}]
  \cup [fail : BrowserFailPoints \ {"none", "close"}, title : {<<>>},
        elements : {<<>>}, closed : {FALSE}]
  \cup [fail : {"close"}, title : {<<>>}, elements : {<<>>}, closed : BOOLEAN]

\* str(e) of the exception raised at a fail point
ExcMessage(point) ==
  CASE point = "urlparse" -> <<"Invalid IPv6 URL">>
    [] point = "fetch" -> <<"HTTPSConnectionPool: Read timed out.">>
    [] point = "parse" -> <<"parser error">>
    [] point = "extract" -> <<"parser error">>
    [] point = "goto" -> <<"Navigation Timeout Exceeded: 30000 ms exceeded.">>
    [] OTHER -> <<"Browser failed at ", point>>

\* ------------------------------------------- LangGraph workflow (agents.py)
\* the AgentState dict main.py starts the workflow with: only "url" is set
\* (url is kept in the variable url); a key that is absent is None, and
\* needs_browser absent is FALSE, as state.get("needs_browser", False) reads it
InitialState ==
  [analysis |-> None, download_links |-> None, error |-> None,
   needs_browser |-> FALSE, final_result |-> None]

InvalidUrlError == <<"Invalid URL format">>

\* "text/html" in content_type
is_html_response(resp) == Contains(resp.content_type, <<"text/html">>)

\* mutant: the except branch without the browser fallback of line 98
static_except_no_fallback(state, point) ==
  [state EXCEPT !.error = Some(<<"Error analyzing URL: ">> \o ExcMessage(point))]

\* the except branch of analyze_url
static_except(state, point) ==
  [state EXCEPT !.error = Some(<<"Error analyzing URL: ">> \o ExcMessage(point)),
                !.needs_browser = TRUE]

\* state["analysis"] as built at lines 74-83 (size, the body length, is left out)
static_analysis(url, resp) ==
  LET d == direct_download_check(url, resp.content_disposition)
  IN [url |-> url,
      title |-> IF is_html_response(resp) THEN resp.title ELSE None,
      content_type |-> Some(resp.content_type),
      is_html |-> is_html_response(resp),
      is_direct_download |-> d.is_direct_download,
      filename |-> d.filename,
      status_code |-> Some(200)]

\* mutant: analyze_url without lines 91-92, an empty link list not flagged
analyze_url_no_flag(state, url, resp) ==
  LET parsed_url == urlparse(url)
      is_html == is_html_response(resp)
      withAnalysis == [state EXCEPT !.analysis = Some(static_analysis(url, resp))]
  IN IF ~parsed_url.ok THEN static_except(state, "urlparse")
     ELSE IF parsed_url.scheme = <<>> \/ parsed_url.netloc = <<>>
     THEN [state EXCEPT !.error = Some(InvalidUrlError)]
     ELSE IF resp.fail = "fetch" THEN static_except(state, "fetch")
     ELSE IF is_html /\ resp.fail = "parse" THEN static_except(state, "parse")
     ELSE IF ~is_html THEN withAnalysis
     ELSE IF resp.fail = "extract" THEN static_except(withAnalysis, "extract")
     ELSE [withAnalysis EXCEPT
             !.download_links = Some(extract_download_links(resp.anchors, url))]

\* the node analyze_url
analyze_url(state, url, resp) ==
  LET parsed_url == urlparse(url)
      is_html == is_html_response(resp)
      withAnalysis == [state EXCEPT !.analysis = Some(static_analysis(url, resp))]
      download_links == extract_download_links(resp.anchors, url)
  IN IF ~parsed_url.ok THEN static_except(state, "urlparse")
     ELSE IF parsed_url.scheme = <<>> \/ parsed_url.netloc = <<>>
     THEN [state EXCEPT !.error = Some(InvalidUrlError)]
     ELSE IF resp.fail = "fetch" THEN static_except(state, "fetch")
     ELSE IF is_html /\ resp.fail = "parse" THEN static_except(state, "parse")
     ELSE IF ~is_html THEN withAnalysis
     ELSE IF resp.fail = "extract" THEN static_except(withAnalysis, "extract")
     ELSE [withAnalysis EXCEPT !.download_links = Some(download_links),
                               !.needs_browser = @ \/ download_links = <<>>]

\* whether analyze_url reaches requests.get (line 41)
static_fetches(url) ==
  LET parsed_url == urlparse(url)
  IN parsed_url.ok /\ parsed_url.scheme # <<>> /\ parsed_url.netloc # <<>>

\* mutant: the router names a node the workflow does not have
needs_browser_router_unknown_node(state) ==
  IF state.needs_browser THEN "analyze_with_browser" ELSE "prepare_final_results"

\* the conditional edge after analyze_url
needs_browser_router(state) ==
  IF state.needs_browser THEN "analyze_with_browser" ELSE "prepare_final_result"

\* the browser is launched unless launch() itself raises
browser_launched(run) == run.fail # "launch"

\* browser.close() (line 182) is reached only when nothing raised before it
browser_closed(run) ==
  \/ run.fail = "none"
  \/ run.fail = "close" /\ run.closed

\* mutant: analyze_with_browser without lines 195-196, the links not stored
analyze_with_browser_discard(state, url, run) ==
  IF run.fail = "none"
  THEN IF state.analysis = None
       THEN [state EXCEPT !.analysis =
               Some([url |-> url, title |-> Some(run.title),
                     content_type |-> None, is_html |-> TRUE,
                     is_direct_download |-> FALSE, filename |-> None,
                     status_code |-> None])]
       ELSE state
  ELSE IF state.error = None
       THEN [state EXCEPT !.error =
               Some(<<"Error analyzing URL with browser: ">> \o ExcMessage(run.fail))]
       ELSE state

\* mutant: a successful browser run clears the error of the static stage
analyze_with_browser_clear_error(state, url, run) ==
  IF run.fail = "none"
  THEN LET download_links == rendered_links(run.elements)
           s1 == IF state.analysis = None
                 THEN [state EXCEPT !.analysis =
                         Some([url |-> url, title |-> Some(run.title),
                               content_type |-> None, is_html |-> TRUE,
                               is_direct_download |-> FALSE, filename |-> None,
                               status_code |-> None]),
                                    !.error = None]
                 ELSE [state EXCEPT !.error = None]
       IN IF download_links # <<>>
          THEN [s1 EXCEPT !.download_links = Some(download_links)]
          ELSE s1
  ELSE IF state.error = None
       THEN [state EXCEPT !.error =
               Some(<<"Error analyzing URL with browser: ">> \o ExcMessage(run.fail))]
       ELSE state

\* the node analyze_with_browser
analyze_with_browser(state, url, run) ==
  IF run.fail = "none"
  THEN LET download_links == rendered_links(run.elements)
           s1 == IF state.analysis = None
                 THEN [state EXCEPT !.analysis =
                         Some([url |-> url, title |-> Some(run.title),
                               content_type |-> None, is_html |-> TRUE,
                               is_direct_download |-> FALSE, filename |-> None,
                               status_code |-> None])]
                 ELSE state
       IN IF download_links # <<>>
          THEN [s1 EXCEPT !.download_links = Some(download_links)]
          ELSE s1
  ELSE IF state.error = None
       THEN [state EXCEPT !.error =
               Some(<<"Error analyzing URL with browser: ">> \o ExcMessage(run.fail))]
       ELSE state

\* the fields of the final result other than recommended_link
final_result_with(state, url, recommended_link) ==
  [success |-> state.error = None,
   url |-> Some(url),
   error |-> state.error,
   is_direct_download |-> state.analysis # None /\ state.analysis[1].is_direct_download,
   download_links |-> IF state.download_links = None THEN <<>> ELSE state.download_links[1],
   recommended_link |-> recommended_link,
   title |-> IF state.analysis # None THEN state.analysis[1].title ELSE None,
   content_type |-> IF state.analysis # None THEN state.analysis[1].content_type ELSE None]

\* mutant: the two branches of lines 260-264 in the other order
prepare_final_result_links_first(state, url) ==
  final_result_with(state, url,
    IF state.download_links \notin {None, Some(<<>>)} THEN Some(state.download_links[1][1])
    ELSE IF state.analysis # None /\ state.analysis[1].is_direct_download THEN Some(url)
    ELSE None)

\* mutant: the request URL recommended when nothing else is
prepare_final_result_default_url(state, url) ==
  final_result_with(state, url,
    IF state.analysis # None /\ state.analysis[1].is_direct_download THEN Some(url)
    ELSE IF state.download_links \notin {None, Some(<<>>)} THEN Some(state.download_links[1][1])
    ELSE Some(url))

\* the node prepare_final_result: the value of state["final_result"]
prepare_final_result(state, url) ==
  final_result_with(state, url,
    IF state.analysis # None /\ state.analysis[1].is_direct_download THEN Some(url)
    ELSE IF state.download_links \notin {None, Some(<<>>)} THEN Some(state.download_links[1][1])
    ELSE None)

\* ------------------------------------- Streamlit front end (streamlit_app.py)
\* the dict the except branch of analyze_url returns (lines 250-260)
st_except(url, point) ==
  [success |-> FALSE, url |-> Some(url),
   error |-> Some(<<"Error analyzing URL: ">> \o ExcMessage(point)),
   is_direct_download |-> FALSE, download_links |-> <<>>, recommended_link |-> None,
   title |-> None, content_type |-> None, needs_browser |-> TRUE, filename |-> None]

\* analyze_url(url) of streamlit_app.py; a key the dict lacks is None, and
\* needs_browser absent is FALSE, as result.get("needs_browser") is tested
st_analyze_url(url, resp) ==
  LET parsed_url == urlparse(url)
      is_html == is_html_response(resp)
      d == direct_download_check(url, resp.content_disposition)
      download_links == IF is_html THEN extract_download_links(resp.anchors, url) ELSE <<>>
  IN IF ~parsed_url.ok THEN st_except(url, "urlparse")
     ELSE IF parsed_url.scheme = <<>> \/ parsed_url.netloc = <<>>
     THEN [success |-> FALSE, url |-> None, error |-> Some(InvalidUrlError),
           is_direct_download |-> FALSE, download_links |-> <<>>,
           recommended_link |-> None, title |-> None, content_type |-> None,
           needs_browser |-> FALSE, filename |-> None]
     ELSE IF resp.fail = "fetch" THEN st_except(url, "fetch")
     ELSE IF is_html /\ resp.fail \in {"parse", "extract"} THEN st_except(url, resp.fail)
     ELSE [success |-> TRUE, url |-> Some(url), error |-> None,
           is_direct_download |-> d.is_direct_download,
           download_links |-> download_links,
           recommended_link |-> IF d.is_direct_download THEN Some(url)
                                ELSE IF download_links # <<>> THEN Some(download_links[1])
                                ELSE None,
           title |-> IF is_html THEN resp.title ELSE None,
           content_type |-> Some(resp.content_type),
           needs_browser |-> is_html /\ download_links = <<>>,
           filename |-> d.filename]

\* the test of line 274
st_needs_browser(result) ==
  result.needs_browser /\ result.recommended_link \in {None, Some(<<>>)}

\* analyze_with_browser(url) of streamlit_app.py
st_analyze_with_browser(url, run) ==
  IF run.fail = "none"
  THEN [title |-> Some(run.title), download_links |-> rendered_links(run.elements),
        error |-> None]
  ELSE [title |-> None, download_links |-> <<>>,
        error |-> Some(<<"Error analyzing URL with browser: ">> \o ExcMessage(run.fail))]

\* mutant: the merge without line 280, recommended_link left as it was
st_merge_keep_recommended(result, br) ==
  LET r1 == IF br.download_links # <<>>
            THEN [result EXCEPT !.download_links = br.download_links]
            ELSE result
  IN IF br.title \notin {None, Some(<<>>)} /\ r1.title \in {None, Some(<<>>)}
     THEN [r1 EXCEPT !.title = br.title]
     ELSE r1

\* lines 278-283: the merge of the browser result into result
st_merge(result, br) ==
  LET r1 == IF br.download_links # <<>>
            THEN [result EXCEPT !.download_links = br.download_links,
                                !.recommended_link = Some(br.download_links[1])]
            ELSE result
  IN IF br.title \notin {None, Some(<<>>)} /\ r1.title \in {None, Some(<<>>)}
     THEN [r1 EXCEPT !.title = br.title]
     ELSE r1

\* --------------------------------------------------------------- the pipeline
VARIABLES
  frontend,        \* "graph": app/main.py + app/agents.py; "streamlit": streamlit_app.py
  url,             \* the request URL
  pc,              \* Start, StaticAnalyzed, BrowserAnalyzed, Finalized
  state,           \* the AgentState dict of the LangGraph workflow
  result,          \* the result dict of the Streamlit script (None before line 271)
  browser_result,  \* the browser_result dict of the Streamlit script
  fetches,         \* number of requests.get calls made
  launches,        \* number of calls of pyppeteer launch()
  openBrowsers,    \* browsers launched and not closed
  staticOut,       \* what the static stage did: outcome, is_html, links
  renderOut,       \* what the rendered stage did: outcome, links, title
  visited,         \* the stages passed so far, in order
  response,        \* what requests.get and the parser did (None when no fetch was made)
  browserRun,      \* what the browser did (None when it was not launched)
  calc,            \* one call of the link normalizer and its repetition
  reqs,            \* the requests being served concurrently by app/main.py
  browsers         \* owner of every browser process launched for those requests

\* variables of the other specifications of this module
others == <<calc, reqs, browsers>>

vars == <<frontend, url, pc, state, result, browser_result, fetches, launches,
          openBrowsers, staticOut, renderOut, visited, response, browserRun, others>>

\* the observable outcome of the static stage for a request and a response
static_outcome(u, resp) ==
  LET parsed_url == urlparse(u)
      is_html == is_html_response(resp)
      failed == \/ ~parsed_url.ok
                \/ resp.fail = "fetch"
                \/ is_html /\ resp.fail \in {"parse", "extract"}
      invalid == parsed_url.ok /\ (parsed_url.scheme = <<>> \/ parsed_url.netloc = <<>>)
      ok == ~invalid /\ ~failed
  IN [outcome |-> IF invalid THEN "invalid" ELSE IF failed THEN "failed" ELSE "ok",
      is_html |-> ok /\ is_html,
      direct |-> ok /\ direct_download_check(u, resp.content_disposition).is_direct_download,
      title |-> IF ok /\ is_html THEN resp.title ELSE None,
      links |-> IF ok /\ is_html THEN extract_download_links(resp.anchors, u) ELSE <<>>]

\* the observable outcome of the rendered stage for a browser run
render_outcome(run) ==
  [outcome |-> IF run.fail = "none" THEN "ok" ELSE "failed",
   links |-> IF run.fail = "none" THEN rendered_links(run.elements) ELSE <<>>,
   title |-> IF run.fail = "none" THEN Some(run.title) ELSE None]

NotRun == [outcome |-> "none", links |-> <<>>, title |-> None]

Init ==
  /\ frontend \in {"graph", "streamlit"}
  /\ url \in Urls
  /\ pc = "Start"
  /\ state = InitialState
  /\ result = None
  /\ browser_result = None
  /\ fetches = 0
  /\ launches = 0
  /\ openBrowsers = 0
  /\ staticOut = [outcome |-> "none", is_html |-> FALSE, direct |-> FALSE,
                  title |-> None, links |-> <<>>]
  /\ renderOut = NotRun
  /\ visited = <<"Start">>
  /\ response = None
  /\ browserRun = None
  /\ calc = None
  /\ reqs = <<>>
  /\ browsers = <<>>

\* START -> analyze_url
G_AnalyzeUrl ==
  /\ frontend = "graph" /\ pc = "Start"
  /\ \E resp \in Responses :
        /\ response' = IF static_fetches(url) THEN Some(resp) ELSE None
        /\ state' = analyze_url(state, url, resp)
        /\ staticOut' = static_outcome(url, resp)
  /\ fetches' = fetches + (IF static_fetches(url) THEN 1 ELSE 0)
  /\ pc' = "StaticAnalyzed"
  /\ visited' = Append(visited, "StaticAnalyzed")
  /\ UNCHANGED <<frontend, url, result, browser_result, launches, openBrowsers, renderOut,
                 browserRun, others>>

\* mutant: the workflow with an edge START -> analyze_with_browser as well
G_AnalyzeWithBrowser_from_start ==
  /\ frontend = "graph" /\ pc \in {"Start", "StaticAnalyzed"}
  /\ pc = "StaticAnalyzed" => needs_browser_router(state) = "analyze_with_browser"
  /\ \E run \in BrowserRuns :
        /\ browserRun' = Some(run)
        /\ state' = analyze_with_browser(state, url, run)
        /\ renderOut' = render_outcome(run)
        /\ launches' = launches + 1
        /\ openBrowsers' = openBrowsers
             + (IF browser_launched(run) /\ ~browser_closed(run) THEN 1 ELSE 0)
  /\ pc' = "BrowserAnalyzed"
  /\ visited' = Append(visited, "BrowserAnalyzed")
  /\ UNCHANGED <<frontend, url, result, browser_result, fetches, staticOut, response, others>>

\* analyze_url -> analyze_with_browser, chosen by needs_browser_router
G_AnalyzeWithBrowser ==
  /\ frontend = "graph" /\ pc = "StaticAnalyzed"
  /\ needs_browser_router(state) = "analyze_with_browser"
  /\ \E run \in BrowserRuns :
        /\ browserRun' = Some(run)
        /\ state' = analyze_with_browser(state, url, run)
        /\ renderOut' = render_outcome(run)
        /\ launches' = launches + 1
        /\ openBrowsers' = openBrowsers
             + (IF browser_launched(run) /\ ~browser_closed(run) THEN 1 ELSE 0)
  /\ pc' = "BrowserAnalyzed"
  /\ visited' = Append(visited, "BrowserAnalyzed")
  /\ UNCHANGED <<frontend, url, result, browser_result, fetches, staticOut, response, others>>

\* analyze_url -> prepare_final_result (router) or
\* analyze_with_browser -> prepare_final_result (edge), then END
G_PrepareFinalResult ==
  /\ frontend = "graph"
  /\ \/ pc = "StaticAnalyzed" /\ needs_browser_router(state) = "prepare_final_result"
     \/ pc = "BrowserAnalyzed"
  /\ state' = [state EXCEPT !.final_result = Some(prepare_final_result(state, url))]
  /\ pc' = "Finalized"
  /\ visited' = Append(visited, "Finalized")
  /\ UNCHANGED <<frontend, url, result, browser_result, fetches, launches,
                 openBrowsers, staticOut, renderOut, response, browserRun, others>>

\* line 271: result = analyze_url(url)
S_AnalyzeUrl ==
  /\ frontend = "streamlit" /\ pc = "Start"
  /\ \E resp \in Responses :
        /\ response' = IF static_fetches(url) THEN Some(resp) ELSE None
        /\ result' = Some(st_analyze_url(url, resp))
        /\ staticOut' = static_outcome(url, resp)
  /\ fetches' = fetches + (IF static_fetches(url) THEN 1 ELSE 0)
  /\ pc' = "StaticAnalyzed"
  /\ visited' = Append(visited, "StaticAnalyzed")
  /\ UNCHANGED <<frontend, url, state, browser_result, launches, openBrowsers, renderOut,
                 browserRun, others>>

\* lines 274-276: browser_result = asyncio.run(analyze_with_browser(url))
S_AnalyzeWithBrowser ==
  /\ frontend = "streamlit" /\ pc = "StaticAnalyzed"
  /\ st_needs_browser(result[1])
  /\ \E run \in BrowserRuns :
        /\ browserRun' = Some(run)
        /\ browser_result' = Some(st_analyze_with_browser(url, run))
        /\ renderOut' = render_outcome(run)
        /\ launches' = launches + 1
        /\ openBrowsers' = openBrowsers
             + (IF browser_launched(run) /\ ~browser_closed(run) THEN 1 ELSE 0)
  /\ pc' = "BrowserAnalyzed"
  /\ visited' = Append(visited, "BrowserAnalyzed")
  /\ UNCHANGED <<frontend, url, state, result, fetches, staticOut, response, others>>

\* lines 278-283: merge, then the result is displayed
S_Merge ==
  /\ frontend = "streamlit" /\ pc = "BrowserAnalyzed"
  /\ result' = Some(st_merge(result[1], browser_result[1]))
  /\ pc' = "Finalized"
  /\ visited' = Append(visited, "Finalized")
  /\ UNCHANGED <<frontend, url, state, browser_result, fetches, launches,
                 openBrowsers, staticOut, renderOut, response, browserRun, others>>

\* line 274 is false: the result of analyze_url is displayed as it is
S_Display ==
  /\ frontend = "streamlit" /\ pc = "StaticAnalyzed"
  /\ ~st_needs_browser(result[1])
  /\ pc' = "Finalized"
  /\ visited' = Append(visited, "Finalized")
  /\ UNCHANGED <<frontend, url, state, result, browser_result, fetches, launches,
                 openBrowsers, staticOut, renderOut, response, browserRun, others>>

Next ==
  \/ G_AnalyzeUrl
  \/ G_AnalyzeWithBrowser
  \/ G_PrepareFinalResult
  \/ S_AnalyzeUrl
  \/ S_AnalyzeWithBrowser
  \/ S_Merge
  \/ S_Display

Spec == Init /\ [][Next]_vars

\* ------------------------------------------------------ the ResolutionResult
Finalized == pc = "Finalized"

\* the ResolutionResult handed to the caller (read only when Finalized)
FinalResult ==
  IF frontend = "graph" THEN state.final_result[1]
  ELSE LET r == result[1]
       IN [success |-> r.success, url |-> r.url, error |-> r.error,
           is_direct_download |-> r.is_direct_download,
           download_links |-> r.download_links,
           recommended_link |-> r.recommended_link,
           title |-> r.title, content_type |-> r.content_type]

TypeOK ==
  /\ frontend \in {"graph", "streamlit"}
  /\ url \in Urls
  /\ pc \in {"Start", "StaticAnalyzed", "BrowserAnalyzed", "Finalized"}
  /\ fetches \in 0..1
  /\ launches \in 0..1
  /\ openBrowsers \in 0..1
  /\ Finalized => FinalResult.success \in BOOLEAN

\* ------------------------------------------------------ claims: vocabulary
\* the request URL parses and has a scheme and a host
ValidUrl == static_fetches(url)

\* the request URL has no scheme or no host
LacksSchemeOrHost == urlparse(url).scheme = <<>> \/ urlparse(url).netloc = <<>>

\* the request went through the rendered stage
Escalated == \E i \in 1..Len(visited) : visited[i] = "BrowserAnalyzed"

StaticFailed == staticOut.outcome = "failed"

\* the static pass succeeded on an HTML page and found no candidate link
StaticHtmlNoLinks ==
  staticOut.outcome = "ok" /\ staticOut.is_html /\ staticOut.links = <<>>

\* ------------------------------------------------------------------ C1
\* C1: in every final result, if is_direct_download is true then
\* recommended_link is the request URL.
C1_DirectRecommendsUrl ==
  Finalized =>
    (FinalResult.is_direct_download => FinalResult.recommended_link = Some(url))

\* a direct download that was escalated and whose rendered page had links
C1_Witness ==
  /\ Finalized /\ FinalResult.is_direct_download
  /\ Escalated /\ renderOut.links # <<>>
  /\ FinalResult.download_links = renderOut.links
  /\ FinalResult.recommended_link = Some(url)

\* ------------------------------------------------------------------ C2
\* C2: in every final result, if is_direct_download is false and
\* download_links is not empty, recommended_link is its first element.
C2_FirstLinkRecommended ==
  Finalized =>
    (~FinalResult.is_direct_download /\ FinalResult.download_links # <<>>
       => FinalResult.recommended_link = Some(FinalResult.download_links[1]))

\* links that came from the rendered stage, two different ones
C2_Witness ==
  /\ Finalized /\ ~FinalResult.is_direct_download /\ Escalated
  /\ Len(FinalResult.download_links) = 2
  /\ FinalResult.download_links[1] # FinalResult.download_links[2]
  /\ FinalResult.recommended_link = Some(FinalResult.download_links[1])

\* ------------------------------------------------------------------ C3
\* C3: in every final result, if download_links is empty and the result is
\* not a direct download, recommended_link is None.
C3_NoLinksNoRecommendation ==
  Finalized =>
    (FinalResult.download_links = <<>> /\ ~FinalResult.is_direct_download
       => FinalResult.recommended_link = None)

\* a page fetched and rendered without error in which no link was found
C3_Witness ==
  /\ Finalized /\ FinalResult.success /\ renderOut.outcome = "ok"
  /\ FinalResult.download_links = <<>> /\ ~FinalResult.is_direct_download
  /\ FinalResult.recommended_link = None

\* ------------------------------------------------------------------ C4
\* C4: for every URL without a scheme or without a host the final result is
\* success = false with error "Invalid URL format", and neither the HTTP
\* fetch nor the browser was used.
C4_InvalidUrlRejected ==
  Finalized /\ LacksSchemeOrHost =>
    /\ ~FinalResult.success
    /\ FinalResult.error = Some(InvalidUrlError)
    /\ fetches = 0
    /\ launches = 0

StageOrders ==
  {<<"Start">>, <<"Start", "StaticAnalyzed">>,
   <<"Start", "StaticAnalyzed", "BrowserAnalyzed">>,
   <<"Start", "StaticAnalyzed", "Finalized">>,
   <<"Start", "StaticAnalyzed", "BrowserAnalyzed", "Finalized">>}

C7_MergeLinks ==
  Finalized /\ Escalated =>
    FinalResult.download_links =
      (IF renderOut.links # <<>> THEN renderOut.links ELSE staticOut.links)

\* the rendered pass returned the same link twice and both are in the result
C7_Witness ==
  /\ Finalized /\ Escalated
  /\ Len(renderOut.links) = 2 /\ renderOut.links[1] = renderOut.links[2]
  /\ FinalResult.download_links = renderOut.links

\* ------------------------------------------------------------------ C8
\* C8: once a request is finalized no browser launched for it is still open.
C8_BrowserReleased == Finalized => openBrowsers = 0

\* ------------------------------------------------------------------ C9
\* the error text of a failed rendered pass
IsRenderError(e) ==
  e # None /\ StartsWith(e[1], <<"Error analyzing URL with browser: ">>)

\* C9: when the static pass succeeded on an HTML page without links and the
\* rendered pass failed, the result is success = true without error; a render
\* error is in the result only if the static pass had failed.
C9_RenderErrorDowngraded ==
  Finalized =>
    /\ StaticHtmlNoLinks /\ renderOut.outcome = "failed"
         => FinalResult.success /\ FinalResult.error = None
    /\ IsRenderError(FinalResult.error) => StaticFailed

\* ------------------------------------------------------------------ C10
\* C10: for a valid URL the result is success = false only when both the
\* static and the rendered stage failed.
C10_ErrorOnlyIfBothFailed ==
  Finalized /\ ValidUrl /\ ~FinalResult.success =>
    StaticFailed /\ renderOut.outcome = "failed"

\* ------------------------------------------------------------------ C11
\* the static stage raised in requests.get or raise_for_status
StaticFetchFailed == response # None /\ response[1].fail = "fetch"

\* C11: when the static fetch fails the browser path is engaged, and if the
\* render fails too the result is success = false and its error is the
\* message of the render failure, not the one of the static failure.
C11_RenderErrorReported ==
  Finalized /\ StaticFetchFailed =>
    /\ Escalated
    /\ renderOut.outcome = "failed"
         => ~FinalResult.success /\ IsRenderError(FinalResult.error)

\* ------------------------------------------------------------------ C12
\* the request URL ends, whatever its case, with a configured extension
UrlHasExtension == \E ext \in file_extensions : EndsWith(Lower(url), ext)

\* a response was received and its Content-Disposition contains "attachment"
AttachmentFetched ==
  /\ response # None /\ response[1].fail # "fetch"
  /\ Contains(response[1].content_disposition, <<"attachment">>)

C12_WitnessExtension ==
  /\ Finalized /\ staticOut.outcome = "ok" /\ ~staticOut.is_html
  /\ UrlHasExtension /\ ~AttachmentFetched
  /\ FinalResult.is_direct_download /\ FinalResult.recommended_link = Some(url)

\* ------------------------------------------------------------------ C13
\* the anchors of a document that satisfy the Classifier, in document order
RECURSIVE ClassifiedAnchors(_)
ClassifiedAnchors(anchors) ==
  IF anchors = <<>> THEN <<>>
  ELSE (IF isDownloadAnchor(anchors[1].href, anchors[1].text, anchors[1].download)
        THEN <<anchors[1]>> ELSE <<>>) \o ClassifiedAnchors(Tail(anchors))

\* the normalized links of the classified anchors of the fetched document
StaticCandidates ==
  LET as == ClassifiedAnchors(response[1].anchors)
  IN [i \in 1..Len(as) |-> normalize(as[i].href, url)]

\* a occurs in b as a subsequence: in order, duplicates counted
RECURSIVE IsSubsequence(_, _)
IsSubsequence(a, b) ==
  IF a = <<>> THEN TRUE
  ELSE IF b = <<>> THEN FALSE
  ELSE IF a[1] = b[1] THEN IsSubsequence(Tail(a), Tail(b))
  ELSE IsSubsequence(a, Tail(b))

\* the static pass parsed an HTML document and found at least one candidate
StaticFoundLinks ==
  /\ staticOut.outcome = "ok" /\ staticOut.is_html
  /\ response # None /\ Len(ClassifiedAnchors(response[1].anchors)) >= 1

\* C13 as stated: if the static pass parses HTML and finds N >= 1 anchors
\* satisfying the Classifier, the final download_links contain those N
\* normalized links in document order, duplicates kept, and
\* recommended_link is the first of them.
C13_StaticLinks ==
  Finalized /\ StaticFoundLinks =>
    /\ Len(FinalResult.download_links) >= Len(StaticCandidates)
    /\ IsSubsequence(StaticCandidates, FinalResult.download_links)
    /\ FinalResult.recommended_link = Some(StaticCandidates[1])

\* C13 amended: the same links, and recommended_link is the first of them
\* unless the resource is a direct download, when it is the request URL.
C13_StaticLinksAmended ==
  Finalized /\ StaticFoundLinks =>
    /\ Len(FinalResult.download_links) >= Len(StaticCandidates)
    /\ IsSubsequence(StaticCandidates, FinalResult.download_links)
    /\ FinalResult.recommended_link =
         (IF FinalResult.is_direct_download THEN Some(url) ELSE Some(StaticCandidates[1]))

\* two different candidates, the first one recommended
C13_Witness ==
  /\ Finalized /\ StaticFoundLinks /\ ~FinalResult.is_direct_download
  /\ Len(StaticCandidates) = 2 /\ StaticCandidates[1] # StaticCandidates[2]
  /\ FinalResult.download_links = StaticCandidates
  /\ FinalResult.recommended_link = Some(StaticCandidates[1])

\* the same anchor twice in the document: both occurrences are kept
C13_WitnessDuplicate ==
  /\ Finalized /\ StaticFoundLinks
  /\ Len(StaticCandidates) = 2 /\ StaticCandidates[1] = StaticCandidates[2]
  /\ FinalResult.download_links = StaticCandidates

\* ------------------------------------------- the link normalizer on its own
\* href values given to the normalizer: relative, root-relative,
\* protocol-relative, absolute, empty, and ones that only look absolute
NormHrefs == {<<"files", "/", "doc", ".pdf">>,
              <<"/", "file", ".ZIP">>,
              <<"/", "/", "cdn.example.com", "/", "x">>,
              <<"http", "docs", "/", "x">>,
              <<"http", "s", ":", "/", "/", "example.com", "/", "about">>,
              <<"HTTP", ":", "/", "/", "example.com", "/", "x">>,
              <<"ftp", ":", "/", "/", "example.com", "/", "x">>,
              <<"..", "/", "file", ".zip">>,
              <<"?", "dl=1">>,
              <<"#", "top">>,
              <<"x">>,
              <<>>}

\* base_url values with a scheme and a host
NormBases == {<<"http", "s", ":", "/", "/", "example.com", "/", "page">>,
              <<"http", ":", "/", "/", "example.com", "/", "dir", "/", "page">>,
              <<"HTTP", ":", "/", "/", "example.com", "/", "dir", "/", "FILE", ".ZIP">>,
              <<"http", "s", ":", "/", "/", "example.com">>,
              <<"ftp", ":", "/", "/", "example.com", "/", "files", "/", "x">>}

\* no request is being served by the pipeline
PipelineIdle ==
  /\ frontend = "graph" /\ url = <<>> /\ pc = "Idle"
  /\ state = InitialState /\ result = None /\ browser_result = None
  /\ fetches = 0 /\ launches = 0 /\ openBrowsers = 0
  /\ staticOut = [outcome |-> "none", is_html |-> FALSE, direct |-> FALSE,
                  title |-> None, links |-> <<>>]
  /\ renderOut = NotRun /\ visited = <<>>
  /\ response = None /\ browserRun = None

pipelineVars == <<frontend, url, pc, state, result, browser_result, fetches, launches,
                  openBrowsers, staticOut, renderOut, visited, response, browserRun>>

\* one href and one base page, nothing computed yet
NormInit ==
  /\ PipelineIdle
  /\ calc \in {Some(c) : c \in [link : NormHrefs, base_url : NormBases,
                               once : {None}, twice : {None}]}
  /\ reqs = <<>>
  /\ browsers = <<>>

\* the conversion of lines 135-144 applied to the href
N_Normalize ==
  /\ calc[1].once = None
  /\ calc' = Some([calc[1] EXCEPT !.once = Some(normalize(calc[1].link, calc[1].base_url))])
  /\ UNCHANGED <<pipelineVars, reqs, browsers>>

\* the conversion applied to its own result, against the same base
N_NormalizeAgain ==
  /\ calc[1].once # None /\ calc[1].twice = None
  /\ calc' = Some([calc[1] EXCEPT !.twice = Some(normalize(calc[1].once[1], calc[1].base_url))])
  /\ UNCHANGED <<pipelineVars, reqs, browsers>>

NormNext ==
  \/ N_Normalize
  \/ N_NormalizeAgain

NormSpec == NormInit /\ [][NormNext]_vars

\* ------------------------------------------------------------------ C14
\* the base page has a scheme and a host
ValidBase ==
  LET parsed_base == urlparse(calc[1].base_url)
  IN parsed_base.ok /\ parsed_base.scheme # <<>> /\ parsed_base.netloc # <<>>

\* the scheme of the base page is http or https
HttpBase == urlparse(calc[1].base_url).scheme \in {<<"http">>, <<"http", "s">>}

FairSpec == Spec /\ WF_vars(Next)

\* ------------------------------------------------------------------ C15
\* a result that reports a failure has success = false and a non-empty
\* error string; one that does not has success = true and no error
FailureReported ==
  /\ FinalResult.success \in BOOLEAN
  /\ FinalResult.success = (FinalResult.error = None)
  /\ ~FinalResult.success => FinalResult.error[1] # <<>>

\* C15: every request, whatever the static and the rendered stage do,
\* eventually reaches Finalized with a result; no failure of a stage leaves
\* the pipeline without one, and a failure is reported as success = false
\* with a non-empty error string.
C15_EventuallyFinalized ==
  /\ <>Finalized
  /\ [](Finalized => FailureReported)

\* both stages failed and the result says so
C15_Witness ==
  /\ Finalized /\ StaticFailed /\ renderOut.outcome = "failed"
  /\ ~FinalResult.success /\ FinalResult.error # None /\ FinalResult.error[1] # <<>>

\* ------------------------------------------------------------------ C16
\* the static stage has returned: its outcome, success or failure, is known
StaticOutcomeKnown ==
  /\ staticOut.outcome \in {"ok", "failed", "invalid"}
  /\ \E i \in 1..Len(visited) : visited[i] = "StaticAnalyzed"

\* C16: within one request the browser is never launched before the outcome
\* of the static stage is known: every step that calls launch() starts in a
\* state where the static stage has completed.
C16_StaticBeforeRendered ==
  [][launches' # launches \/ renderOut' # renderOut => StaticOutcomeKnown]_vars

\* the browser launched after a static stage that failed
C16_Witness ==
  /\ launches = 1 /\ renderOut.outcome # "none"
  /\ StaticFailed /\ fetches = 1
  /\ visited = <<"Start", "StaticAnalyzed", "BrowserAnalyzed">>

\* ------------------------------------ concurrent requests (app/main.py)
\* number of POST /analyze requests in flight at once
NumRequests == 2

\* the URL of each request (one URL each, taken in turn)
ConcUrls == << <<"http", "s", ":", "/", "/", "example.com", "/", "page">>,
               <<"http", "s", ":", "/", "/", "cdn.example.com", "/", "file", ".zip">>,
               <<"HTTP", ":", "/", "/", "example.com", "/", "dir", "/", "FILE", ".ZIP">> >>

\* one response of each kind: failed fetch, file, page without and with a link
ConcResponses ==
  {resp \in Responses :
     /\ resp.fail \in {"none", "fetch"}
     /\ resp.content_disposition = <<>>
     /\ resp.content_type # <<>> \/ resp.fail = "fetch"
     /\ resp.title \in {None, Some(<<"Static Title">>)}
     /\ is_html_response(resp) => resp.title # None
     /\ resp.anchors \in {<<>>, <<[href |-> <<"/", "file", ".ZIP">>,
                                  text |-> <<"get it">>, download |-> FALSE]>>}}

\* one browser run of each kind: no browser, a browser left open, a full run
ConcRuns ==
  {run \in BrowserRuns :
     /\ run.fail \in {"none", "launch", "goto"}
     /\ run.fail = "none" => run.title # <<>> /\ Len(run.elements) = 1
                             /\ rendered_links(run.elements) # <<>>}

\* launch(): a new browser process for the calling request; browsers[i] is
\* the set of requests that use process i
launch_shared(bs, r) ==
  IF bs = <<>> THEN <<{r}>> ELSE [bs EXCEPT ![Len(bs)] = @ \cup {r}]

launch(bs, r) == Append(bs, {r})

\* every request has its own initial_state; none has started
ConcInit ==
  /\ PipelineIdle
  /\ calc = None
  /\ reqs = [r \in 1..NumRequests |->
               [url |-> ConcUrls[((r - 1) % Len(ConcUrls)) + 1], pc |-> "Start",
                state |-> InitialState, resp |-> None, run |-> None, browser |-> 0]]
  /\ browsers = <<>>

\* node analyze_url of request r
C_AnalyzeUrl(r) ==
  /\ reqs[r].pc = "Start"
  /\ \E resp \in ConcResponses :
        reqs' = [reqs EXCEPT ![r].resp = Some(resp),
                             ![r].state = analyze_url(reqs[r].state, reqs[r].url, resp),
                             ![r].pc = "StaticAnalyzed"]
  /\ UNCHANGED <<pipelineVars, calc, browsers>>

\* node analyze_with_browser of request r up to its first await: launch()
C_Launch(r) ==
  /\ reqs[r].pc = "StaticAnalyzed"
  /\ needs_browser_router(reqs[r].state) = "analyze_with_browser"
  /\ \E run \in ConcRuns :
        /\ browsers' = IF browser_launched(run) THEN launch(browsers, r) ELSE browsers
        /\ reqs' = [reqs EXCEPT ![r].run = Some(run),
                                ![r].browser = IF browser_launched(run) THEN Len(browsers')
                                               ELSE 0,
                                ![r].pc = "InBrowser"]
  /\ UNCHANGED <<pipelineVars, calc>>

\* the rest of analyze_with_browser of request r: the page is read in the
\* browser the request holds and the state of the request is updated
C_AnalyzeWithBrowser(r) ==
  /\ reqs[r].pc = "InBrowser"
  /\ reqs' = [reqs EXCEPT ![r].state = analyze_with_browser(reqs[r].state, reqs[r].url,
                                                            reqs[r].run[1]),
                          ![r].pc = "BrowserAnalyzed"]
  /\ UNCHANGED <<pipelineVars, calc, browsers>>

\* node prepare_final_result of request r; main.py returns final_result
C_PrepareFinalResult(r) ==
  /\ \/ /\ reqs[r].pc = "StaticAnalyzed"
        /\ needs_browser_router(reqs[r].state) = "prepare_final_result"
     \/ reqs[r].pc = "BrowserAnalyzed"
  /\ reqs' = [reqs EXCEPT ![r].state.final_result =
                            Some(prepare_final_result(reqs[r].state, reqs[r].url)),
                          ![r].pc = "Finalized"]
  /\ UNCHANGED <<pipelineVars, calc, browsers>>

ConcNext ==
  \E r \in 1..NumRequests :
    \/ C_AnalyzeUrl(r)
    \/ C_Launch(r)
    \/ C_AnalyzeWithBrowser(r)
    \/ C_PrepareFinalResult(r)

ConcSpec == ConcInit /\ [][ConcNext]_vars

\* ------------------------------------------------------------------ C17
\* the state a request has after the static stage when it runs alone
AloneStatic(q) == analyze_url(InitialState, q.url, q.resp[1])

\* the state it has when the workflow ends, given the state after the static stage
AloneEnd(q, s) ==
  IF needs_browser_router(s) = "analyze_with_browser"
  THEN analyze_with_browser(s, q.url, q.run[1])
  ELSE s

\* the final result the request gets alone, with the same stage outcomes
AloneResult(q) == prepare_final_result(AloneEnd(q, AloneStatic(q)), q.url)

\* no browser process is used by two requests, and every finished request
\* has the result it would have alone
RequestsIsolated ==
  /\ \A i \in 1..Len(browsers) : Cardinality(browsers[i]) <= 1
  /\ \A r \in DOMAIN reqs : \A q \in DOMAIN reqs :
        r # q /\ reqs[r].browser # 0 => reqs[r].browser # reqs[q].browser
  /\ \A r \in DOMAIN reqs :
        reqs[r].pc = "Finalized"
          => reqs[r].state.final_result = Some(AloneResult(reqs[r]))

\* C17: when several requests run concurrently, under any interleaving of
\* their stages, no browser instance is used by more than one request, no
\* step of a request changes the pipeline state of another, and the final
\* result of each request is the one it gets running alone with the same
\* stage outcomes.
C17_ConcurrentRequestsIsolated ==
  /\ []RequestsIsolated
  /\ [][\A r \in DOMAIN reqs : \A q \in DOMAIN reqs :
          r # q /\ reqs'[r] # reqs[r] => reqs'[q] = reqs[q]]_vars

\* two requests inside the browser stage at the same time, each with its
\* own browser process
C17_Witness ==
  /\ Len(reqs) >= 2
  /\ reqs[1].pc = "InBrowser" /\ reqs[2].pc = "InBrowser"
  /\ reqs[1].browser # 0 /\ reqs[2].browser # 0
  /\ reqs[1].browser # reqs[2].browser
  /\ browsers[reqs[1].browser] = {1} /\ browsers[reqs[2].browser] = {2}

\* ------------------------------------------------------------------ C18
\* C18: when the static pass classified the resource as a direct download or
\* as not HTML, needs_browser does not fire and the pipeline goes from
\* StaticAnalyzed to Finalized without the rendered stage, also for an HTML
\* response with no candidate link.
C18_NoEscalationOfDirectDownload ==
  Finalized /\ staticOut.outcome = "ok" /\ (staticOut.direct \/ ~staticOut.is_html) =>
    /\ ~Escalated /\ launches = 0
    /\ visited = <<"Start", "StaticAnalyzed", "Finalized">>

\* ------------------------------------------------------------------ C19
\* the rendered stage ran to its end and the page had a (non-empty) title
RenderedTitle == renderOut.outcome = "ok" /\ renderOut.title \notin {None, Some(<<>>)}

\* C19: after an escalation, if the rendered stage produced a title and the
\* static pass had none (it failed, or the HTML had no <title>), the final
\* title is the rendered title; a title of the static pass is never
\* overwritten.
C19_TitleMerge ==
  Finalized /\ Escalated =>
    /\ RenderedTitle /\ staticOut.title = None => FinalResult.title = renderOut.title
    /\ staticOut.title \notin {None, Some(<<>>)} => FinalResult.title = staticOut.title

\* ------------------------------------------------------------------ C20
\* the links the Classifier of the static pass accepts among the elements of
\* the rendered page (their href is already absolute)
RECURSIVE ClassifiedHrefs(_)
ClassifiedHrefs(elements) ==
  IF elements = <<>> THEN <<>>
  ELSE (IF isDownloadAnchor(elements[1].href, elements[1].text, elements[1].download)
        THEN <<elements[1].href>> ELSE <<>>) \o ClassifiedHrefs(Tail(elements))

\* C20: the rendered stage accepts an anchor exactly when
\* isDownloadAnchor(href, label, hasDownloadAttribute) is true (download
\* attribute set, or a keyword in the lower-cased label or href, or the href
\* ends with a configured extension): the links of a rendered page are the
\* hrefs of the elements the Classifier accepts.
C20_SameClassifier ==
  browserRun # None /\ renderOut.outcome = "ok" =>
    renderOut.links = ClassifiedHrefs(browserRun[1].elements)

\* ------------------------------------------------------------------ C21
\* the response the static stage drew; for a request whose URL was refused
\* before the fetch, the response of a fetch that was not made
DrawnResponse ==
  IF response # None THEN response[1]
  ELSE [fail |-> "fetch", content_type |-> <<>>, content_disposition |-> <<>>,
        title |-> None, anchors |-> <<>>]

\* what the Streamlit script computes for the same URL and static outcome
StreamlitStatic == st_analyze_url(url, DrawnResponse)

\* what it displays for the same URL and the same stage outcomes
StreamlitResult ==
  IF st_needs_browser(StreamlitStatic) /\ browserRun # None
  THEN st_merge(StreamlitStatic, st_analyze_with_browser(url, browserRun[1]))
  ELSE StreamlitStatic

\* the fields of a result the two front ends are compared on
Shown(r) ==
  <<r.success, r.error, r.is_direct_download, r.download_links,
    r.recommended_link, r.title>>

\* C21: for every request URL and every pair of static and rendered
\* outcomes, the LangGraph workflow and the Streamlit script take the same
\* escalation decision and yield the same success, error,
\* is_direct_download, download_links, recommended_link and title.
C21_FrontEndsAgree ==
  Finalized /\ frontend = "graph" =>
    /\ Escalated = st_needs_browser(StreamlitStatic)
    /\ Shown(FinalResult) = Shown(StreamlitResult)

\* ------------------------------------------------------------------ C22
\* the PageAnalysis the request holds: None when there is none, else its
\* classification fields
PageAnalysis ==
  IF frontend = "graph"
  THEN IF state.analysis = None THEN None
       ELSE Some([is_direct_download |-> state.analysis[1].is_direct_download,
                  content_type |-> state.analysis[1].content_type,
                  filename |-> state.analysis[1].filename,
                  is_html |-> state.analysis[1].is_html])
  ELSE IF result = None THEN None
       ELSE Some([is_direct_download |-> result[1].is_direct_download,
                  content_type |-> result[1].content_type,
                  filename |-> result[1].filename])

\* C22: the PageAnalysis is produced by the static stage only and does not
\* change afterwards: no step after the static stage creates one or changes
\* is_direct_download, content_type, filename or is_html, whether the static
\* pass succeeded or failed.
C22_PageAnalysisImmutable ==
  [][pc # "Start" => PageAnalysis' = PageAnalysis]_vars

\* ------------------------------------------------------------------ C23
\* the href starts with the scheme token http:// or https://
StartsWithHttpScheme(link) ==
  \/ StartsWith(link, <<"http", ":", "/", "/">>)
  \/ StartsWith(link, <<"http", "s", ":", "/", "/">>)

\* the link is an absolute URL: it begins with a scheme and a host
IsAbsoluteUrl(link) ==
  LET parsed == urlparse(link)
  IN parsed.ok /\ parsed.scheme # <<>> /\ parsed.netloc # <<>>

\* C23: the normalizer returns an href unchanged if and only if it starts
\* with http:// or https://; every other href, also one that only begins
\* with the letters "http", is rewritten by rules 2-4, so every link it
\* returns is an absolute URL with a scheme and a host.
C23_UnchangedIffHttpScheme ==
  calc # None /\ calc[1].once # None /\ ValidBase =>
    /\ (calc[1].once[1] = calc[1].link) = StartsWithHttpScheme(calc[1].link)
    /\ IsAbsoluteUrl(calc[1].once[1])

\* ------------------------------------------------------------------ C24
\* success is true exactly when the result has no error
SuccessIffNoError ==
  Finalized /\ frontend = "graph" =>
    FinalResult.success = (FinalResult.error = None)

\* C24: in every final result of the LangGraph workflow success is true
\* exactly when error is absent, and an error set by the static stage is
\* never cleared or overwritten by a later stage (so a result can have
\* success = false together with download links and a recommended link).
C24_StaticErrorKept ==
  /\ []SuccessIffNoError
  /\ [][frontend = "graph" /\ pc # "Start" /\ state.error # None
          => state'.error = state.error]_vars
  /\ [](Finalized /\ frontend = "graph" /\ state.error # None
          => FinalResult.error = state.error)

\* the static pass failed, the rendered pass found links: success = false
\* with download links and a recommended link
C24_Witness ==
  /\ Finalized /\ frontend = "graph"
  /\ StaticFailed /\ renderOut.outcome = "ok" /\ renderOut.links # <<>>
  /\ ~FinalResult.success
  /\ StartsWith(FinalResult.error[1], <<"Error analyzing URL: ">>)
  /\ FinalResult.download_links = renderOut.links
  /\ FinalResult.recommended_link = Some(renderOut.links[1])

====
